---- MODULE Spec2Model ----
(***************************************************************************)
(* The `rad patch` command (patch/src/lib.rs): argument parsing, `run`,    *)
(* `list`, `create` and `edit_message`, as a state machine over the calls  *)
(* the command makes to its collaborators (storage, repository, operator   *)
(* prompts, editor, patch store, rad_sync).                                *)
(*                                                                         *)
(* Text is a sequence of one-character strings, so that split_once, trim   *)
(* and replace are computed character by character as the code does.       *)
(***************************************************************************)
EXTENDS Integers, Sequences, FiniteSets, TLC

\* Bounds of the model.
NumPeers == 2      \* tracked peers of the project
MaxStored == 2     \* patches already in the store when the command starts
MaxArgs == 2       \* command-line arguments given to `rad patch`

VARIABLES
  pc,            \* position in main / run / create / list
  options,       \* Options { list, verbose, sync }
  store,         \* the Patch Store: sequence of persisted patches
  store0,        \* the Patch Store as it was when the command started
  head_oid,      \* create: target of HEAD
  targets,       \* create: result of patch::find_merge_targets
  target,        \* create: (target_peer, target_oid)
  message,       \* create: head_commit.message()
  saved,         \* edit_message: what the operator did in the editor
  title,         \* create: title returned by edit_message
  description,   \* create: description returned by edit_message
  calleeResult,  \* what list / create returned to run
  result,        \* what run (or from_args) returned
  proposed,      \* list: patches.proposed(&project.urn)
  own,           \* list: patches the user authored
  other,         \* list: patches other users authored
  trace          \* calls made to the collaborators so far, with what they returned

vars == << pc, options, store, store0, head_oid, targets, target, message, saved,
           title, description, calleeResult, result, proposed, own, other, trace >>

-----------------------------------------------------------------------------
\* Text

PATCH_MSG ==
  <<
    "\n",
    "<", "!", "-", "-", "\n",
    "P", "l", "e", "a", "s", "e", " ", "e", "n", "t", "e", "r", " ", "a", " ", "p", "a", "t", "c", "h", " ", "m", "e", "s", "s", "a", "g", "e", " ", "f", "o", "r", " ", "y", "o", "u", "r", " ", "c", "h", "a", "n", "g", "e", "s", ".", " ", "A", "n", " ", "e", "m", "p", "t", "y", "\n",
    "m", "e", "s", "s", "a", "g", "e", " ", "a", "b", "o", "r", "t", "s", " ", "t", "h", "e", " ", "p", "a", "t", "c", "h", " ", "p", "r", "o", "p", "o", "s", "a", "l", ".", "\n",
    "\n",
    "T", "h", "e", " ", "f", "i", "r", "s", "t", " ", "l", "i", "n", "e", " ", "i", "s", " ", "t", "h", "e", " ", "p", "a", "t", "c", "h", " ", "t", "i", "t", "l", "e", ".", " ", "T", "h", "e", " ", "p", "a", "t", "c", "h", " ", "d", "e", "s", "c", "r", "i", "p", "t", "i", "o", "n", "\n",
    "f", "o", "l", "l", "o", "w", "s", ",", " ", "a", "n", "d", " ", "m", "u", "s", "t", " ", "b", "e", " ", "s", "e", "p", "a", "r", "a", "t", "e", "d", " ", "w", "i", "t", "h", " ", "a", " ", "b", "l", "a", "n", "k", " ", "l", "i", "n", "e", ",", " ", "j", "u", "s", "t", "\n",
    "l", "i", "k", "e", " ", "a", " ", "c", "o", "m", "m", "i", "t", " ", "m", "e", "s", "s", "a", "g", "e", ".", " ", "M", "a", "r", "k", "d", "o", "w", "n", " ", "i", "s", " ", "s", "u", "p", "p", "o", "r", "t", "e", "d", " ", "i", "n", " ", "t", "h", "e", " ", "t", "i", "t", "l", "e", "\n",
    "a", "n", "d", " ", "d", "e", "s", "c", "r", "i", "p", "t", "i", "o", "n", ".", "\n",
    "-", "-", ">", "\n" >>

\* `"Title line"` and `"Body text"`, the parts of the head commit messages.
TitleLine == <<"T", "i", "t", "l", "e", " ", "l", "i", "n", "e">>
BodyText == <<"B", "o", "d", "y", " ", "t", "e", "x", "t">>
NL == <<"\n">>

WhiteSpace == {" ", "\n", "\t", "\r"}

\* str::trim_start / str::trim_end / str::trim
RECURSIVE TrimStart(_)
TrimStart(s) ==
  IF s # <<>> /\ s[1] \in WhiteSpace THEN TrimStart(Tail(s)) ELSE s

RECURSIVE TrimEnd(_)
TrimEnd(s) ==
  IF s # <<>> /\ s[Len(s)] \in WhiteSpace THEN TrimEnd(SubSeq(s, 1, Len(s) - 1)) ELSE s

Trim(s) == TrimEnd(TrimStart(s))

\* Positions at which `pat` occurs in `s`.
Occurrences(s, pat) ==
  { i \in 1 .. (Len(s) - Len(pat) + 1) : SubSeq(s, i, i + Len(pat) - 1) = pat }

Min(S) == CHOOSE x \in S : \A y \in S : x <= y

None == [some |-> FALSE, val |-> <<>>]
Some(v) == [some |-> TRUE, val |-> v]

\* str::split_once(delimiter): the text before and after the first occurrence.
SplitOnce(s, pat) ==
  LET occ == Occurrences(s, pat) IN
  IF occ = {} THEN None
  ELSE LET i == Min(occ) IN
       Some(<< SubSeq(s, 1, i - 1), SubSeq(s, i + Len(pat), Len(s)) >>)

\* str::replace(pat, ""): every non-overlapping occurrence removed, left to right.
RECURSIVE Remove(_, _)
Remove(s, pat) ==
  LET occ == Occurrences(s, pat) IN
  IF occ = {} THEN s
  ELSE LET i == Min(occ) IN
       SubSeq(s, 1, i - 1) \o Remove(SubSeq(s, i + Len(pat), Len(s)), pat)

-----------------------------------------------------------------------------
\* Results: anyhow::Result<()>, the `?` operator, panics

Ok == [kind |-> "Ok", msg |-> "", hint |-> ""]
Go == [kind |-> "Go", msg |-> "", hint |-> ""]        \* no early return: carry on
Err(m) == [kind |-> "Err", msg |-> m, hint |-> ""]
ErrWithHint(m, h) == [kind |-> "Err", msg |-> m, hint |-> h]
Panic(m) == [kind |-> "Panic", msg |-> m, hint |-> ""]

Call(name, ret) == [call |-> name, ret |-> ret]

-----------------------------------------------------------------------------
\* Options::from_args

ArgKinds == {"--list", "-l", "--verbose", "-v", "--sync", "--no-sync", "--help", "--bogus"}

ArgLists == UNION { [1 .. n -> ArgKinds] : n \in 0 .. MaxArgs }

DefaultFlags == [list |-> FALSE, verbose |-> FALSE, sync |-> TRUE]

RECURSIVE ParseLoop(_, _)
ParseLoop(args, o) ==
  IF args = <<>> THEN [res |-> Ok, options |-> o]
  ELSE LET arg == Head(args) IN
       CASE arg \in {"--list", "-l"} -> ParseLoop(Tail(args), [o EXCEPT !.list = TRUE])
         [] arg \in {"--verbose", "-v"} -> ParseLoop(Tail(args), [o EXCEPT !.verbose = TRUE])
         [] arg = "--sync" -> ParseLoop(Tail(args), [o EXCEPT !.sync = TRUE])
         [] arg = "--no-sync" -> ParseLoop(Tail(args), [o EXCEPT !.sync = FALSE])
         [] arg = "--help" -> [res |-> Err("help"), options |-> o]
         [] OTHER -> [res |-> Err("unexpected argument"), options |-> o]

from_args(args) == ParseLoop(args, DefaultFlags)

-----------------------------------------------------------------------------
\* The collaborators' data

PeerNames == <<"A", "B", "C", "D">>
PeerSeq == SubSeq(PeerNames, 1, NumPeers)
Peers == { PeerSeq[i] : i \in 1 .. NumPeers }

Tip(peer) == <<"tip", peer>>

\* What patch::find_merge_targets can return: every tracked peer whose default
\* branch resolves is in exactly one of `merged` and `not_merged`.
PeerStates == [Peers -> {"unresolvable", "merged", "not_merged"}]

TargetsOf(st, kind) ==
  LET picked == SelectSeq(PeerSeq, LAMBDA p : st[p] = kind)
  IN  [i \in 1 .. Len(picked) |-> << picked[i], Tip(picked[i]) >>]

MergeTargetSets ==
  { [merged |-> TargetsOf(st, "merged"), not_merged |-> TargetsOf(st, "not_merged")] :
      st \in PeerStates }

NoTargets == [merged |-> <<>>, not_merged |-> <<>>]
NoTarget == << "", <<"tip", "">> >>

HeadOids == {"c1", "c2"}

\* person::local(storage): the local identity; the authors of stored patches.
Whoami == "me"
Identities == {"me", "them"}

\* MergeTarget::default()
MergeTargetDefault == "default"

Patch(author, t, d, tgt, oid) ==
  [author |-> author, title |-> t, description |-> d, target |-> tgt, head |-> oid]

StoredPatch(author) == Patch(author, <<"o", "l", "d">>, <<>>, MergeTargetDefault, "c0")

InitialStores ==
  UNION { [1 .. n -> { StoredPatch(a) : a \in Identities }] : n \in 0 .. MaxStored }

\* What head_commit.message() can return: None for a message that is not UTF-8.
CommitMessages ==
  { None,
    Some(TitleLine \o NL \o NL \o BodyText),
    Some(TitleLine \o NL \o NL \o BodyText \o NL),
    Some(TitleLine \o NL),
    Some(TitleLine) }

-----------------------------------------------------------------------------
\* edit_message

\* What the operator does in the editor.
EditorActions == {"save", "save_without_help", "save_empty", "quit", "io_error"}

\* Editor::trim_newlines(true): trailing newlines are cut from what was saved.
RECURSIVE TrimNewlines(_)
TrimNewlines(s) ==
  IF s # <<>> /\ s[Len(s)] \in {"\n", "\r"} THEN TrimNewlines(SubSeq(s, 1, Len(s) - 1))
  ELSE s

\* Editor::edit(seed) with require_save(true): Ok(None) when nothing was saved.
EditorEdit(seed, action) ==
  CASE action = "io_error" -> [res |-> Err("io"), text |-> None]
    [] action = "quit" -> [res |-> Ok, text |-> None]
    [] action = "save" -> [res |-> Ok, text |-> Some(TrimNewlines(seed))]
    [] action = "save_without_help" ->
         [res |-> Ok, text |-> Some(TrimNewlines(Remove(seed, PATCH_MSG)))]
    [] action = "save_empty" -> [res |-> Ok, text |-> Some(<<>>)]

\* `description.trim()`, then `.replace(PATCH_MSG.trim(), "")`
StripHelp(desc) == Remove(Trim(desc), Trim(PATCH_MSG))

EditorUnwrapFailed == Panic("called Result::unwrap() on an Err value")
EditAborted == Err("user aborted the patch")
InvalidMessage == Err("invalid title or description")

edit_message(msg, action) ==
  LET edited == EditorEdit(msg \o PATCH_MSG, action) IN
  IF edited.res.kind # "Ok" THEN [res |-> EditorUnwrapFailed, title |-> <<>>, description |-> <<>>]
  ELSE IF ~edited.text.some THEN [res |-> EditAborted, title |-> <<>>, description |-> <<>>]
  ELSE LET parts == SplitOnce(edited.text.val, <<"\n", "\n">>) IN
       IF ~parts.some THEN [res |-> InvalidMessage, title |-> <<>>, description |-> <<>>]
       ELSE [res |-> Go, title |-> Trim(parts.val[1]), description |-> StripHelp(parts.val[2])]

-----------------------------------------------------------------------------
\* The decisions of run, create and list

\* run, lines 100-107: the project context, profile, signer, storage and project.
RunSetups == {"ok", "no_project_context", "setup_error", "project_not_loaded"}

RunSetupOutcome(o) ==
  CASE o = "ok" -> Go
    [] o = "no_project_context" -> Err("this command must be run in the context of a project")
    [] o = "project_not_loaded" -> Err("couldn't load project from local state")
    [] OTHER -> Err(o)

\* run: `list(..)?` / `create(..)?`, then `Ok(())`
Propagate(r) == IF r.kind = "Ok" THEN Ok ELSE r

\* create: HEAD, its target, its commit and its branch name.
HeadLookups == {"ok", "head_error", "no_target", "find_commit_error", "detached", "bad_ref_name"}

HeadOutcome(o) ==
  CASE o = "ok" -> Go
    [] o = "no_target" -> Err("invalid HEAD ref; aborting")
    [] o = "detached" -> Err("cannot create patch from detatched head; aborting")
    [] OTHER -> Err(o)

\* create: `storage.find_object(Oid::from(head_oid))?.is_none()`
ObjectLookups == {"some", "none", "error"}

\* (the hint quotes rad push in backquotes, written ' here)
HeadNotInStorage ==
  ErrWithHint("Current branch head not found in storage", "hint: run 'rad push' and try again")

\* Mutant: a HEAD commit missing from storage is let through.
FindObjectOutcome_acceptsMissing(o) ==
  IF o \in {"some", "none"} THEN Go ELSE Err("storage error")

FindObjectOutcome(o) ==
  CASE o = "some" -> Go
    [] o = "none" -> HeadNotInStorage
    [] OTHER -> Err("storage error")

\* create: `match targets.not_merged.as_slice()`
NoMergeTargets == Err("no merge targets found for patch")
TargetTodo == Panic("not yet implemented")

\* Mutant: an empty not_merged list falls through to the preview.
MatchNotMerged_emptyFallsThrough(not_merged) ==
  CASE Len(not_merged) = 0 -> [res |-> Go, target |-> NoTarget]
    [] Len(not_merged) = 1 -> [res |-> Go, target |-> not_merged[1]]
    [] OTHER -> [res |-> TargetTodo, target |-> NoTarget]

MatchNotMerged(not_merged) ==
  CASE Len(not_merged) = 0 -> [res |-> NoMergeTargets, target |-> NoTarget]
    [] Len(not_merged) = 1 -> [res |-> Go, target |-> not_merged[1]]
    [] OTHER -> [res |-> TargetTodo, target |-> NoTarget]

\* create: the user name, ahead/behind, merge base and commit list of the preview.
Previews == {"ok", "config_error", "graph_error", "no_merge_base", "list_commits_error"}

PreviewOutcome(o) ==
  CASE o = "ok" -> Go
    [] o = "no_merge_base" -> Panic("called Result::unwrap() on an Err value")
    [] OTHER -> Err(o)

\* Mutant: a declined "Continue?" returns Ok(()) from create.
ContinueOutcome_cleanAbort(yes) == IF ~yes THEN Ok ELSE Go

\* create: `if !term::confirm("Continue?") { bail!(..) }`
ContinueOutcome(yes) == IF ~yes THEN Err("patch proposal aborted by user") ELSE Go

\* create: `head_commit.message().ok_or(..)?`
MessageOutcome(m) ==
  IF m.some THEN Go ELSE Err("commit summary is not valid UTF-8; aborting")

\* Mutant: the answer to "Create patch?" is ignored.
CreatePatchOutcome_ignoresAnswer(yes) == Go

\* create: `if !term::confirm("Create patch?") { bail!(..) }`
CreatePatchOutcome(yes) == IF ~yes THEN Err("patch proposal aborted by user") ELSE Go

\* create: the local identity, the patch store, `patches.create(..)?`
Persists == {"ok", "identity_error", "store_error", "create_error"}

PersistOutcome(o) == IF o = "ok" THEN Go ELSE Err(o)

\* Mutant: the resolved target peer is passed as the target designator.
CreateArgs_resolvedTarget(who, t, d, tgt, oid) == Patch(who, t, d, tgt, oid)

\* The arguments of `patches.create(&project.urn, &title, &description,
\* MergeTarget::default(), head_oid, &[])`; `tgt` is the resolved target_peer,
\* which is in scope at the call and is not among its arguments.
CreateArgs(who, t, d, tgt, oid) == Patch(who, t, d, MergeTargetDefault, oid)

\* Mutant: the sync option is not consulted.
SyncWanted_always(o) == TRUE

\* create: `if options.sync { rad_sync::run(..)?; }`
SyncWanted(o) == o.sync

Syncs == {"ok", "error"}

\* Mutant: a failed synchronization is swallowed.
SyncOutcome_swallowed(o) == Ok

SyncOutcome(o) == IF o = "ok" THEN Ok ELSE Err("sync failed")

\* list: the identity, the patch store, the proposed patches and HEAD.
ListLoads == {"ok", "identity_error", "store_error", "proposed_error", "head_error"}

ListLoadOutcome(o) == IF o = "ok" THEN Go ELSE Err(o)

\* patches.proposed(&project.urn): the stored patches with their ids, in store order.
Proposed(s) == [i \in 1 .. Len(s) |-> << i, s[i] >>]

\* list: `*patch.author.urn() == whoami.urn()`
IsOwn(patch, who) == patch.author = who

\* Mutant: each patch is put at the front of its group.
RECURSIVE Partition_prepend(_, _, _, _)
Partition_prepend(rest, who, o, t) ==
  IF rest = <<>> THEN [own |-> o, other |-> t]
  ELSE IF IsOwn(Head(rest)[2], who)
       THEN Partition_prepend(Tail(rest), who, <<Head(rest)>> \o o, t)
       ELSE Partition_prepend(Tail(rest), who, o, <<Head(rest)>> \o t)

\* list: the loop that pushes each patch on `own` or on `other`.
RECURSIVE Partition(_, _, _, _)
Partition(rest, who, o, t) ==
  IF rest = <<>> THEN [own |-> o, other |-> t]
  ELSE IF IsOwn(Head(rest)[2], who)
       THEN Partition(Tail(rest), who, Append(o, Head(rest)), t)
       ELSE Partition(Tail(rest), who, o, Append(t, Head(rest)))

\* list: `print(..)?` of each patch of the two groups.
Prints == {"ok", "graph_error"}

PrintOutcome(o) == IF o = "ok" THEN Ok ELSE Err(o)

-----------------------------------------------------------------------------
\* The state machine

Init ==
  /\ pc = "main"
  /\ options = DefaultFlags
  /\ store \in InitialStores
  /\ store0 = store
  /\ head_oid = ""
  /\ targets = NoTargets
  /\ target = NoTarget
  /\ message = None
  /\ saved = ""
  /\ title = <<>>
  /\ description = <<>>
  /\ calleeResult = Go
  /\ result = Go
  /\ proposed = <<>>
  /\ own = <<>>
  /\ other = <<>>
  /\ trace = <<>>

\* `?` and `return` in create and list: an outcome other than Go ends the callee.
Advance(r, next) ==
  IF r.kind = "Go"
  THEN pc' = next /\ UNCHANGED calleeResult
  ELSE pc' = "callee_ret" /\ calleeResult' = r

\* Options::from_args, and the dispatch to run.
ParseArgs ==
  /\ pc = "main"
  /\ \E args \in ArgLists :
       LET p == from_args(args) IN
       IF p.res.kind = "Ok"
       THEN pc' = "run" /\ options' = p.options /\ UNCHANGED result
       ELSE pc' = "exit" /\ result' = p.res /\ UNCHANGED options
  /\ UNCHANGED << store, store0, head_oid, targets, target, message, saved, title,
                  description, calleeResult, proposed, own, other, trace >>

\* run, up to the dispatch on options.list.
RunSetup ==
  /\ pc = "run"
  /\ \E o \in RunSetups :
       LET r == RunSetupOutcome(o) IN
       /\ trace' = Append(trace, Call("run_setup", o))
       /\ IF r.kind = "Go"
          THEN pc' = (IF options.list THEN "list" ELSE "create") /\ UNCHANGED result
          ELSE pc' = "exit" /\ result' = r
  /\ UNCHANGED << options, store, store0, head_oid, targets, target, message, saved,
                  title, description, calleeResult, proposed, own, other >>

\* create: resolve HEAD.
ResolveHead ==
  /\ pc = "create"
  /\ \E o \in HeadLookups, oid \in HeadOids :
       /\ trace' = Append(trace, Call("repo.head", o))
       /\ head_oid' = (IF o = "ok" THEN oid ELSE head_oid)
       /\ Advance(HeadOutcome(o), "find_object")
  /\ UNCHANGED << options, store, store0, targets, target, message, saved, title,
                  description, result, proposed, own, other >>

\* create: make sure the HEAD commit can be found in the monorepo.
FindObject ==
  /\ pc = "find_object"
  /\ \E o \in ObjectLookups :
       /\ trace' = Append(trace, Call("storage.find_object", o))
       /\ Advance(FindObjectOutcome(o), "find_merge_targets")
  /\ UNCHANGED << options, store, store0, head_oid, targets, target, message, saved,
                  title, description, result, proposed, own, other >>

\* create: `patch::find_merge_targets(&head_oid, storage, project)?`
FindMergeTargets ==
  /\ pc = "find_merge_targets"
  /\ \/ \E t \in MergeTargetSets :
          /\ targets' = t
          /\ trace' = Append(trace, Call("patch::find_merge_targets", "ok"))
          /\ Advance(Go, "match_targets")
     \/ /\ UNCHANGED targets
        /\ trace' = Append(trace, Call("patch::find_merge_targets", "error"))
        /\ Advance(Err("find_merge_targets"), "match_targets")
  /\ UNCHANGED << options, store, store0, head_oid, target, message, saved, title,
                  description, result, proposed, own, other >>

\* create: choose the target among the peers that have not merged the patch.
SelectTarget ==
  /\ pc = "match_targets"
  /\ LET m == MatchNotMerged(targets.not_merged) IN
       /\ target' = m.target
       /\ Advance(m.res, "preview")
  /\ UNCHANGED << options, store, store0, head_oid, targets, message, saved, title,
                  description, result, proposed, own, other, trace >>

\* create: show the target, ahead/behind and the commits of the patch.
Preview ==
  /\ pc = "preview"
  /\ \E o \in Previews :
       /\ trace' = Append(trace, Call("preview", o))
       /\ Advance(PreviewOutcome(o), "confirm_continue")
  /\ UNCHANGED << options, store, store0, head_oid, targets, target, message, saved,
                  title, description, result, proposed, own, other >>

\* create: the first confirmation.
ConfirmContinue ==
  /\ pc = "confirm_continue"
  /\ \E yes \in BOOLEAN :
       /\ trace' = Append(trace, Call("confirm: Continue?", IF yes THEN "yes" ELSE "no"))
       /\ Advance(ContinueOutcome(yes), "edit_message")
  /\ UNCHANGED << options, store, store0, head_oid, targets, target, message, saved,
                  title, description, result, proposed, own, other >>

\* create: the head commit's message, edited by the operator.
EditMessage ==
  /\ pc = "edit_message"
  /\ \E m \in CommitMessages :
       /\ message' = m
       /\ IF MessageOutcome(m).kind # "Go"
          THEN /\ Advance(MessageOutcome(m), "confirm_create")
               /\ UNCHANGED << saved, title, description, trace >>
          ELSE \E a \in EditorActions :
                 LET e == edit_message(m.val, a) IN
                 /\ saved' = a
                 /\ trace' = Append(trace, Call("Editor::edit", a))
                 /\ title' = e.title
                 /\ description' = e.description
                 /\ Advance(e.res, "confirm_create")
  /\ UNCHANGED << options, store, store0, head_oid, targets, target, result, proposed,
                  own, other >>

\* create: the second confirmation.
ConfirmCreate ==
  /\ pc = "confirm_create"
  /\ \E yes \in BOOLEAN :
       /\ trace' = Append(trace, Call("confirm: Create patch?", IF yes THEN "yes" ELSE "no"))
       /\ Advance(CreatePatchOutcome(yes), "persist")
  /\ UNCHANGED << options, store, store0, head_oid, targets, target, message, saved,
                  title, description, result, proposed, own, other >>

\* create: `patches.create(..)?`
Persist ==
  /\ pc = "persist"
  /\ \E o \in Persists :
       /\ IF o \in {"ok", "create_error"}
          THEN trace' = Append(trace, Call("patches.create", o))
          ELSE trace' = Append(trace, Call("Patches::new", o))
       /\ IF PersistOutcome(o).kind = "Go"
          THEN store' = Append(store, CreateArgs(Whoami, title, description, target[1], head_oid))
          ELSE UNCHANGED store
       /\ Advance(PersistOutcome(o), "sync")
  /\ UNCHANGED << options, store0, head_oid, targets, target, message, saved, title,
                  description, result, proposed, own, other >>

\* create: the synchronization step, then `Ok(())`.
Sync ==
  /\ pc = "sync"
  /\ IF SyncWanted(options)
     THEN \E o \in Syncs :
            /\ trace' = Append(trace, Call("rad_sync::run", o))
            /\ calleeResult' = SyncOutcome(o)
     ELSE /\ UNCHANGED trace
          /\ calleeResult' = Ok
  /\ pc' = "callee_ret"
  /\ UNCHANGED << options, store, store0, head_oid, targets, target, message, saved,
                  title, description, result, proposed, own, other >>

\* list: load the proposed patches.
ListLoad ==
  /\ pc = "list"
  /\ \E o \in ListLoads :
       /\ trace' = Append(trace, Call("patches.proposed", o))
       /\ proposed' = (IF o = "ok" THEN Proposed(store) ELSE proposed)
       /\ Advance(ListLoadOutcome(o), "list_groups")
  /\ UNCHANGED << options, store, store0, head_oid, targets, target, message, saved,
                  title, description, result, own, other >>

\* list: group the patches by author and print the two groups.
ListGroups ==
  /\ pc = "list_groups"
  /\ LET g == Partition(proposed, Whoami, <<>>, <<>>) IN
       /\ own' = g.own
       /\ other' = g.other
  /\ \E o \in Prints :
       /\ o = "graph_error" => proposed # <<>>
       /\ trace' = Append(trace, Call("print", o))
       /\ calleeResult' = PrintOutcome(o)
  /\ pc' = "callee_ret"
  /\ UNCHANGED << options, store, store0, head_oid, targets, target, message, saved,
                  title, description, result, proposed >>

\* run: the result of list or create is the result of run.
RunReturn ==
  /\ pc = "callee_ret"
  /\ result' = Propagate(calleeResult)
  /\ pc' = "exit"
  /\ UNCHANGED << options, store, store0, head_oid, targets, target, message, saved,
                  title, description, calleeResult, proposed, own, other, trace >>

Next ==
  \/ ParseArgs
  \/ RunSetup
  \/ ResolveHead
  \/ FindObject
  \/ FindMergeTargets
  \/ SelectTarget
  \/ Preview
  \/ ConfirmContinue
  \/ EditMessage
  \/ ConfirmCreate
  \/ Persist
  \/ Sync
  \/ ListLoad
  \/ ListGroups
  \/ RunReturn

Spec == Init /\ [][Next]_vars

-----------------------------------------------------------------------------
\* Reading the calls made so far

Called(name) == \E i \in DOMAIN trace : trace[i].call = name
Answered(name, ret) == \E i \in DOMAIN trace : trace[i] = Call(name, ret)
CallCount(name) == Cardinality({ i \in DOMAIN trace : trace[i].call = name })
Returned == pc \in {"callee_ret", "exit"}

OperatorPrompted ==
  \/ Called("confirm: Continue?")
  \/ Called("confirm: Create patch?")
  \/ Called("Editor::edit")

DeclinedContinue == Answered("confirm: Continue?", "no")
DeclinedCreate == Answered("confirm: Create patch?", "no")
EditReturnedNothing == Answered("Editor::edit", "quit")
Cancelled == DeclinedContinue \/ DeclinedCreate \/ EditReturnedNothing

CancelMessages == {"patch proposal aborted by user", "user aborted the patch"}

LastStored == store[Len(store)]

\* Order of a group within the store's enumeration.
PositionIn(seq, e) == CHOOSE k \in DOMAIN seq : seq[k] = e
Members(seq) == { seq[k] : k \in DOMAIN seq }
KeepsOrderOf(group, seq) ==
  \A i, j \in DOMAIN group : i < j => PositionIn(seq, group[i]) < PositionIn(seq, group[j])

\* The given calls occur in the trace, in the given order.
RECURSIVE InOrderFrom(_, _)
InOrderFrom(calls, from) ==
  IF calls = <<>> THEN TRUE
  ELSE LET hits == { i \in from .. Len(trace) : trace[i] = Head(calls) } IN
       hits # {} /\ InOrderFrom(Tail(calls), Min(hits) + 1)

InOrder(calls) == InOrderFrom(calls, 1)

-----------------------------------------------------------------------------
\* Claims

\* C1: in every run of create, if the operator declines the first confirmation
\* ("Continue?") or the second ("Create patch?"), the Patch Store's create is never
\* called in that run and the store holds the same patches as before the run.
C1_DeclinedNeverPersists ==
  (DeclinedContinue \/ DeclinedCreate) =>
     /\ ~Called("patches.create")
     /\ store = store0
     /\ Returned

C1_Witness ==
  /\ pc = "exit"
  /\ DeclinedCreate
  /\ Answered("confirm: Continue?", "yes")
  /\ title = TitleLine

\* C2: when the HEAD commit is not found in storage, create fails with the error that
\* carries the "run rad push and try again" hint, before merge targets are resolved,
\* before any operator prompt, and without any call to the Patch Store's create.
C2_UnpublishedHeadFails ==
  Answered("storage.find_object", "none") =>
     /\ Returned
     /\ calleeResult.kind = "Err"
     /\ calleeResult.msg = "Current branch head not found in storage"
     /\ calleeResult.hint = "hint: run 'rad push' and try again"
     /\ pc = "exit" => result = calleeResult
     /\ ~Called("patch::find_merge_targets")
     /\ ~OperatorPrompted
     /\ ~Called("patches.create")
     /\ store = store0

C2_Witness ==
  /\ pc = "exit"
  /\ Answered("storage.find_object", "none")
  /\ result.hint # ""

C4_SyncFailureIsSuccess ==
  (pc = "exit" /\ Answered("rad_sync::run", "error")) =>
     /\ Len(store) = Len(store0) + 1
     /\ result.kind = "Ok"

\* C4 (amended): when the synchronization step fails after the patch has been
\* persisted, the patch stays persisted (no rollback), and create returns the
\* synchronization error, which run returns to its caller.
C4_SyncFailureKeepsPatchReturnsError ==
  Answered("rad_sync::run", "error") =>
     /\ Returned
     /\ store = Append(store0, Patch(Whoami, title, description, MergeTargetDefault, head_oid))
     /\ calleeResult.kind = "Err"
     /\ pc = "exit" => result = calleeResult

C4_Witness ==
  /\ pc = "exit"
  /\ Answered("rad_sync::run", "error")
  /\ Len(store) = Len(store0) + 1

\* C5: when merge-target resolution yields more than one not-merged candidate, create
\* fails with an error that is returned to the caller like the other fatal errors, and
\* no patch is persisted.
C5_AmbiguousTargetIsReturnedError ==
  (pc = "exit" /\ Answered("patch::find_merge_targets", "ok") /\ Len(targets.not_merged) > 1) =>
     /\ result.kind = "Err"
     /\ store = store0

\* C6 (as claimed): the patch that create persists is stored under the merge target
\* resolved from the single not-merged candidate: the designator passed to the Patch
\* Store's create identifies that candidate.
C6_PersistedUnderResolvedTarget ==
  Answered("patches.create", "ok") => LastStored.target = target[1]

\* C6 (amended): the patch that create persists is stored under MergeTarget::default()
\* whatever the single not-merged candidate resolved as target is; it carries the
\* local identity, the edited title and description, and the head commit.
C6_PersistedUnderDefaultTarget ==
  Answered("patches.create", "ok") =>
     /\ Len(targets.not_merged) = 1
     /\ target = targets.not_merged[1]
     /\ target[1] \in Peers
     /\ store = Append(store0, LastStored)
     /\ LastStored.target = MergeTargetDefault
     /\ LastStored.author = Whoami
     /\ LastStored.title = title
     /\ LastStored.description = description
     /\ LastStored.head = head_oid

C6_Witness ==
  /\ pc = "exit"
  /\ Answered("patches.create", "ok")
  /\ target[1] = "B"
  /\ targets.merged = << <<"A", Tip("A")>> >>

\* C7: when find_merge_targets returns empty merged and not_merged sets, create fails
\* with the no-merge-targets error before any operator prompt and makes no call to the
\* Patch Store's create.
C7_NoTargetsFails ==
  (Answered("patch::find_merge_targets", "ok") /\ targets = NoTargets /\ pc # "match_targets") =>
     /\ Returned
     /\ calleeResult = Err("no merge targets found for patch")
     /\ pc = "exit" => result = calleeResult
     /\ ~OperatorPrompted
     /\ ~Called("patches.create")
     /\ store = store0

C7_Witness ==
  /\ pc = "exit"
  /\ Answered("patch::find_merge_targets", "ok")
  /\ targets = NoTargets
  /\ result.msg = "no merge targets found for patch"

\* C8: list puts a patch in the "own" group if and only if its author is the local
\* identity and every other patch in the "others" group, each patch in exactly one
\* group, and within each group the patches keep the order of the store's enumeration.
C8_ListGroupsByAuthor ==
  (Answered("patches.proposed", "ok") /\ pc # "list_groups") =>
     /\ \A k \in DOMAIN proposed :
          /\ (proposed[k] \in Members(own)) <=> (proposed[k][2].author = "me")
          /\ (proposed[k] \in Members(other)) <=> (proposed[k][2].author # "me")
     /\ Members(own) \cup Members(other) = Members(proposed)
     /\ Len(own) + Len(other) = Len(proposed)
     /\ KeepsOrderOf(own, proposed)
     /\ KeepsOrderOf(other, proposed)

C8_Witness ==
  /\ pc = "exit"
  /\ Answered("patches.proposed", "ok")
  /\ Len(own) >= 2
  /\ result.kind = "Ok"

\* C9: for the head commit message "Title line\n\nBody text" shown with the help text
\* appended and saved unchanged, edit_message returns the title "Title line" and the
\* description "Body text", with no whitespace or newline left around the description.
C9_UnchangedSaveYieldsTitleAndBody ==
  (/\ pc = "confirm_create"
   /\ message = Some(TitleLine \o NL \o NL \o BodyText)
   /\ saved = "save") =>
     /\ title = TitleLine
     /\ description = BodyText

\* C10: in every run of create, the Patch Store's create is called at most once and only
\* after the storage check, the target resolution, the first confirmation, the message
\* edit and the second confirmation have succeeded, in that order; synchronization is
\* invoked only after that call succeeded and only when the sync option is on.
C10_PersistLastSyncAfter ==
  /\ CallCount("patches.create") <= 1
  /\ CallCount("rad_sync::run") <= 1
  /\ Called("patches.create") =>
       \E e \in {"save", "save_without_help"}, o \in {"ok", "create_error"} :
          /\ trace[Len(trace)].call \in {"patches.create", "rad_sync::run"}
          /\ InOrder(<< Call("storage.find_object", "some"),
                        Call("patch::find_merge_targets", "ok"),
                        Call("confirm: Continue?", "yes"),
                        Call("Editor::edit", e),
                        Call("confirm: Create patch?", "yes"),
                        Call("patches.create", o) >>)
  /\ Called("rad_sync::run") =>
       /\ options.sync
       /\ trace[Len(trace)].call = "rad_sync::run"
       /\ trace[Len(trace) - 1] = Call("patches.create", "ok")
  /\ (pc = "exit" /\ ~Answered("patches.create", "ok")) => ~Called("rad_sync::run")
  /\ ~options.sync => ~Called("rad_sync::run")
  /\ store # store0 => Answered("patches.create", "ok")

C10_Witness ==
  /\ pc = "exit"
  /\ Answered("patches.create", "ok")
  /\ Answered("rad_sync::run", "ok")
  /\ result.kind = "Ok"

====
